---- MODULE Spec2Model ----
(***************************************************************************)
(* The terminal interaction engine of nspecify: the Key Source             *)
(* (KeyboardHandler, keyboard.js), the Selector (selector.js), the         *)
(* process-level exit hooks, and the Progress Tracker with its Live        *)
(* Updater (tracker.js), as one state machine.  JavaScript runs each       *)
(* handler to completion, so every action below is one whole handler.      *)
(***************************************************************************)
EXTENDS Integers, Sequences, FiniteSets, TLC

\* ------------------------------------------------------------------ bounds
\* Raw keypresses that may pile up in keyBuffer inside one debounce window.
MaxBuffer == 2
\* The same, while a Selector is on the Key Source.
MaxBurst == 1
\* Items of a Selector.
MaxItems == 3
\* Callbacks the application has registered with the Key Source at a time.
MaxListeners == 2
\* up and down keys handled by the Selector during a run of the program.
MaxMoves == 2
\* Render functions waiting in the Live Updater's queue.
MaxQueue == 3

\* The keypresses of a behaviour whose order of delivery is followed.
MaxPresses == 3

\* --------------------------------------------------------------- constants
\* JavaScript's null / undefined.
Null == "null"

\* A readline key descriptor.  some = FALSE is a missing descriptor (!key);
\* name = "" is a descriptor whose name is undefined.
Key(n, c) == [some |-> TRUE, name |-> n, ctrl |-> c]
NoKey == [some |-> FALSE, name |-> "", ctrl |-> FALSE]
Raw(s, k) == [str |-> s, key |-> k]

\* The raw keypresses the terminal delivers in this model.
KeyUp == Raw("", Key("up", FALSE))
KeyDown == Raw("", Key("down", FALSE))
KeyReturn == Raw("\r", Key("return", FALSE))
KeyEscape == Raw("", Key("escape", FALSE))
KeyX == Raw("x", Key("x", FALSE))
CtrlC == Raw("c", Key("c", TRUE))
RawKeys == {KeyUp, KeyDown, KeyReturn, KeyEscape, KeyX, CtrlC}

\* `str || ...`: the empty string and undefined are falsy.
Falsy(s) == s = "" \/ s = Null

normalizeKey_strFirst(str, key) ==
  IF ~key.some THEN (IF Falsy(str) THEN "unknown" ELSE str)
  ELSE IF ~Falsy(str) THEN str
  ELSE IF key.name = "return" THEN "enter"
  ELSE IF ~Falsy(key.name) THEN key.name
  ELSE "unknown"

\* KeyboardHandler.normalizeKey(str, key)
normalizeKey(str, key) ==
  IF ~key.some THEN (IF Falsy(str) THEN "unknown" ELSE str)
  ELSE IF key.name = "up" THEN "up"
  ELSE IF key.name = "down" THEN "down"
  ELSE IF key.name = "left" THEN "left"
  ELSE IF key.name = "right" THEN "right"
  ELSE IF key.name = "return" THEN "enter"
  ELSE IF key.name = "escape" THEN "escape"
  ELSE IF key.name = "space" THEN "space"
  ELSE IF key.name = "tab" THEN "tab"
  ELSE IF key.name = "backspace" THEN "backspace"
  ELSE IF ~Falsy(str) THEN str
  ELSE IF ~Falsy(key.name) THEN key.name
  ELSE "unknown"

\* ------------------------------------------------------------------- state
VARIABLES
  kb,      \* the shared KeyboardHandler: isRawMode, listeners, keyBuffer, debounceTimer
  stdin,   \* process.stdin: isTTY, isRaw (setRawMode), flowing (resume/pause), keypress listeners
  proc,    \* the process: alive, exitCode
  sel,     \* the Selector: its fields and the position of run()
  peer,    \* a second KeyboardHandler object on the same process.stdin: its
           \* isRawMode flag and the number of its keypress listeners
  wait,    \* the handlers of the waitForKey() promises that are still pending
  trk,     \* the StepTracker: steps, refreshCallback, lastRenderLines
  upd,     \* the LiveUpdater: isActive, updateQueue, currentLines, updateInterval
  out,     \* what the last handler did: its name, its input and the event it emitted
  hist     \* history: the last calls of enableRawMode/disableRawMode; the up and down
           \* keys the Selector has handled, and the last key it handled; whether
           \* the updater was finished and not started again; where the
           \* delivery is followed, the keypresses so far (log) and the
           \* keypresses whose events the first observer was given (delivered)

vars == <<kb, stdin, peer, proc, sel, wait, trk, upd, out, hist>>

\* The whole state as one value, so that a handler is a function from state to state.
World ==
  [kb |-> kb, stdin |-> stdin, peer |-> peer, proc |-> proc, sel |-> sel, wait |-> wait,
   trk |-> trk, upd |-> upd, out |-> out, hist |-> hist]

Becomes(w) ==
  /\ kb' = w.kb
  /\ stdin' = w.stdin
  /\ peer' = w.peer
  /\ proc' = w.proc
  /\ sel' = w.sel
  /\ wait' = w.wait
  /\ trk' = w.trk
  /\ upd' = w.upd
  /\ out' = w.out
  /\ hist' = w.hist

\* hist.rawCalls keeps the last three calls of enableRawMode/disableRawMode.
Push(s, x) == IF Len(s) < 3 THEN Append(s, x) ELSE Append(Tail(s), x)

Range(s) == {s[i] : i \in 1..Len(s)}

\* Array.prototype.indexOf, 1-based; 0 when absent.
IndexOf(s, x) ==
  IF x \in Range(s) THEN CHOOSE i \in 1..Len(s) : s[i] = x /\ \A j \in 1..(i - 1) : s[j] # x
  ELSE 0

\* Array.prototype.splice(index, 1)
SpliceOut(s, i) == SubSeq(s, 1, i - 1) \o SubSeq(s, i + 1, Len(s))

\* ------------------------------------------------------------- subscribers
\* A callback is identified by what it does when invoked:
\*   sel  - the Selector's keyHandler (key) => this.handleKey(key)
\*   wait - the handler of one waitForKey() call
\*   getKey - the handler of the waitForKey() call made by getKey()
\*   obs  - a callback of the application; observer 2 throws when invoked
Cb(k, i) == [kind |-> k, id |-> i]
SelCb == Cb("sel", 1)
Observers == {1, 2}
Throws(c) == c = 2

\* The names of the events emitted: Ctrl+C is never normalized.
KeyNames == {normalizeKey(r.str, r.key) : r \in RawKeys \ {CtrlC}}

\* The event names of the registry: the wildcard and every normalized name.
ListenerNames == {"any"} \cup KeyNames

NoRaw == Raw("", NoKey)

\* The output of a handler that emitted nothing.
\*   op, raw, key  the handler, and the raw keypress or the key name it was given
\*   emitted       the events passed to emit: [name, from, burst], burst being the
\*                 keyBuffer the event was taken from
\*   namedAtStart, anyAtStart   the callbacks registered when emit started
\*   invoked       the callbacks invoked, in order, with the list they were under
\*   resolved      the waitForKey() promises resolved, with the name they got
\*   threw         an exception left the handler's callbacks
\*   arg           the step a tracker call was given: key, label, status, detail
\*   refreshes     the step lists the refresh callback found, one per invocation
\*   called        the queued render functions called
\*   erased        the line counts passed to LiveUpdater.clearLines
\*   drawn         the contents written to the terminal
\*   rows, top     the terminal rows erased and the row on which the content
\*                 written begins, both counted downwards from the first row of
\*                 the content written before (of the tracker's display, or of
\*                 the updater)
NoOut(op, raw) ==
  [op |-> op, raw |-> raw, key |-> "", emitted |-> <<>>,
   namedAtStart |-> <<>>, anyAtStart |-> <<>>, invoked |-> <<>>, resolved |-> <<>>,
   threw |-> FALSE,
   arg |-> [key |-> "", label |-> "", status |-> "", detail |-> ""],
   refreshes |-> <<>>, called |-> <<>>, erased |-> <<>>, drawn |-> <<>>,
   rows |-> {}, top |-> 0]

\* The state a handler starts from: nothing done yet in this step.
Begin(op, raw) == [World EXCEPT !.out = NoOut(op, raw)]

\* ------------------------------------------------------------ Key Source
enableRawMode_noGuard(w) ==
  [w EXCEPT !.hist.rawCalls = Push(@, "enable"),
            !.stdin.isRaw = IF w.stdin.isTTY THEN TRUE ELSE @,
            !.stdin.flowing = TRUE,
            !.stdin.keypress = @ + 1,
            !.kb.isRawMode = TRUE]

enableRawMode_noTtyTest(w) ==
  LET h == [w EXCEPT !.hist.rawCalls = Push(@, "enable")] IN
  IF w.kb.isRawMode THEN h
  ELSE [h EXCEPT !.stdin.isRaw = TRUE,
                 !.stdin.flowing = TRUE,
                 !.stdin.keypress = @ + 1,
                 !.kb.isRawMode = TRUE]

\* KeyboardHandler.enableRawMode()
enableRawMode(w) ==
  LET h == [w EXCEPT !.hist.rawCalls = Push(@, "enable")] IN
  IF w.kb.isRawMode THEN h
  ELSE [h EXCEPT !.stdin.isRaw = IF w.stdin.isTTY THEN TRUE ELSE @,
                 !.stdin.flowing = TRUE,
                 !.stdin.keypress = @ + 1,
                 !.kb.isRawMode = TRUE]

\* KeyboardHandler.disableRawMode(): removeAllListeners('keypress') removes the
\* keypress listeners of every KeyboardHandler from process.stdin.
disableRawMode(w) ==
  LET h == [w EXCEPT !.hist.rawCalls = Push(@, "disable")] IN
  IF ~w.kb.isRawMode THEN h
  ELSE [h EXCEPT !.stdin.isRaw = IF w.stdin.isTTY THEN FALSE ELSE @,
                 !.stdin.flowing = FALSE,
                 !.stdin.keypress = 0,
                 !.peer.keypress = 0,
                 !.kb.isRawMode = FALSE]

\* KeyboardHandler.on(keyName, callback)
on(w, keyName, cb) == [w EXCEPT !.kb.listeners[keyName] = Append(@, cb)]

\* KeyboardHandler.off(keyName, callback)
off(w, keyName, cb) ==
  LET callbacks == w.kb.listeners[keyName]
      index == IndexOf(callbacks, cb)
  IN IF index # 0 THEN [w EXCEPT !.kb.listeners[keyName] = SpliceOut(callbacks, index)]
     ELSE w

cleanup_noDisable(w) ==
  [w EXCEPT !.kb.listeners = [n \in ListenerNames |-> <<>>],
            !.kb.debounceTimer = IF @ = "armed" THEN "cleared" ELSE @]

\* KeyboardHandler.cleanup()
cleanup(w) ==
  LET d == disableRawMode(w) IN
  [d EXCEPT !.kb.listeners = [n \in ListenerNames |-> <<>>],
            !.kb.debounceTimer = IF @ = "armed" THEN "cleared" ELSE @]

\* enableRawMode() of the second KeyboardHandler object.
Peer_enableRawMode(w) ==
  IF w.peer.isRawMode THEN w
  ELSE [w EXCEPT !.stdin.isRaw = IF w.stdin.isTTY THEN TRUE ELSE @,
                 !.stdin.flowing = TRUE,
                 !.peer.keypress = @ + 1,
                 !.peer.isRawMode = TRUE]

\* disableRawMode() of the second KeyboardHandler object.
Peer_disableRawMode(w) ==
  IF ~w.peer.isRawMode THEN w
  ELSE [w EXCEPT !.stdin.isRaw = IF w.stdin.isTTY THEN FALSE ELSE @,
                 !.stdin.flowing = FALSE,
                 !.stdin.keypress = 0,
                 !.peer.keypress = 0,
                 !.peer.isRawMode = FALSE]

\* cleanup() of the second KeyboardHandler object, which has no subscriber and
\* no pending timer.
Peer_cleanup(w) == Peer_disableRawMode(w)

\* process.exit(code): the 'exit' hook runs cleanup(), then the process is gone.
exit(w, code) ==
  LET c == cleanup(w) IN [c EXCEPT !.proc = [alive |-> FALSE, exitCode |-> code]]

\* The uncaughtException and unhandledRejection hooks: cleanup(), then process.exit(1).
fatalHook(w) == exit(cleanup(w), 1)

\* KeyboardHandler.waitForKey(): the promise's handler is registered under 'any'.
waitForKey(w, handler) == [on(w, "any", handler) EXCEPT !.wait = @ \cup {handler}]

\* getKey() up to its await: keyboard.enableRawMode(); keyboard.waitForKey().
\* What follows the await returns the key; the finally block is empty.
getKey(w, handler) == waitForKey(enableRawMode(w), handler)

\* -------------------------------------------------------------- Selector
\* An item is modelled by its key; Null is a malformed (null) entry of items.
ItemKeys == <<"a", "b", "c", "d", "e", "f">>
Items(n) == SubSeq(ItemKeys, 1, n)

\* The number NaN, which no index equals.
NaN == -99

\* JavaScript's % : the remainder takes the sign of the dividend; NaN when the
\* divisor is 0 or the dividend is NaN.
JsRem(a, n) ==
  IF n = 0 \/ a = NaN THEN NaN
  ELSE IF a >= 0 THEN a % n ELSE -((-a) % n)

\* JavaScript's + and - : NaN when an operand is NaN.
JsAdd(a, b) == IF a = NaN \/ b = NaN THEN NaN ELSE a + b

\* items[index]: undefined outside the array.
ItemAt(items, index) ==
  IF index >= 0 /\ index < Len(items) THEN items[index + 1] ELSE Null

\* The terminal rows are numbered downwards from the row of the cursor when the
\* Selector is constructed; sel.cursor is the cursor's row and sel.painted the
\* rows that hold output of the Selector (no line is wider than the terminal,
\* and the terminal does not scroll).
\* Selector.clearLines(lines): clears the cursor's row, then lines times moves up
\* one row and clears it.
Selector_clearLines(w, lines) ==
  [w EXCEPT !.sel.painted = @ \ ((w.sel.cursor - lines)..w.sel.cursor),
            !.sel.cursor = @ - lines]

\* process.stdout.write(lines.join('\n')): count lines from the cursor's row on,
\* the cursor staying on the last of them.
Selector_write(w, count) ==
  [w EXCEPT !.sel.painted = @ \cup (w.sel.cursor..(w.sel.cursor + count - 1)),
            !.sel.cursor = @ + count - 1]

render_needsItems(w, clear) ==
  IF Len(w.sel.items) = 0 \/ Null \in Range(w.sel.items) THEN [w EXCEPT !.out.threw = TRUE]
  ELSE LET count == 3 + Len(w.sel.items) + 3
           c == IF clear /\ w.sel.previousLineCount # 0
                THEN Selector_clearLines(w, w.sel.previousLineCount) ELSE w
       IN [Selector_write(c, count) EXCEPT !.sel.previousLineCount = count - 1]

\* Selector.render(clear): builds the lines (reading item.key of every item, which
\* throws on a null item), erases the previous render if asked to and if there
\* is one, writes the lines and records their number less one.
render(w, clear) ==
  IF Null \in Range(w.sel.items) THEN [w EXCEPT !.out.threw = TRUE]
  ELSE LET count == 3 + Len(w.sel.items) + 3
           c == IF clear /\ w.sel.previousLineCount # 0
                THEN Selector_clearLines(w, w.sel.previousLineCount) ELSE w
       IN [Selector_write(c, count) EXCEPT !.sel.previousLineCount = count - 1]

moveUp_noWrap(index, n) == JsRem(JsAdd(index, -1), n)

\* case 'up': (this.selectedIndex - 1 + this.items.length) % this.items.length
moveUp(index, n) == JsRem(JsAdd(JsAdd(index, -1), n), n)

\* case 'down': (this.selectedIndex + 1) % this.items.length
moveDown(index, n) == JsRem(JsAdd(index, 1), n)

\* Selector.handleKey(key); hist keeps the key and counts the up and down keys.
handleKey(w, key) ==
  LET n == Len(w.sel.items)
      h == [w EXCEPT !.hist.last = key]
  IN CASE key = "up" ->
            render([h EXCEPT !.sel.selectedIndex = moveUp(@, n), !.hist.ups = @ + 1], TRUE)
       [] key = "down" ->
            render([h EXCEPT !.sel.selectedIndex = moveDown(@, n), !.hist.downs = @ + 1], TRUE)
       [] key = "enter" ->
            [h EXCEPT !.sel.result = ItemAt(w.sel.items, w.sel.selectedIndex),
                      !.sel.isActive = FALSE]
       [] key = "escape" ->
            [h EXCEPT !.sel.result = Null, !.sel.isActive = FALSE]
       [] OTHER -> h

\* ---------------------------------------------------------------- dispatch
\* One callback invoked by emit with the event's name.
invoke(w, ln, cb, keyName) ==
  LET v == [w EXCEPT !.out.invoked = Append(@, [cb |-> cb, under |-> ln])] IN
  CASE cb.kind = "obs" -> IF Throws(cb.id) THEN [v EXCEPT !.out.threw = TRUE] ELSE v
    [] cb.kind \in {"wait", "getKey"} ->
         \* waitForKey's handler: this.off('any', handler); resolve(keyName)
         IF cb \in v.wait
         THEN [off(v, "any", cb) EXCEPT !.wait = @ \ {cb},
                                        !.out.resolved = Append(@, [cb |-> cb, key |-> keyName])]
         ELSE off(v, "any", cb)
    [] cb.kind = "sel" -> handleKey(v, keyName)

\* callbacks.forEach(callback => ...) on the live array of listeners[ln]: the length
\* is read once, an index that is no longer in the array is skipped, and a callback
\* that throws ends the loop.
RECURSIVE forEach(_, _, _, _, _)
forEach(w, ln, k, len, keyName) ==
  IF k > len \/ w.out.threw THEN w
  ELSE IF k > Len(w.kb.listeners[ln]) THEN forEach(w, ln, k + 1, len, keyName)
  ELSE forEach(invoke(w, ln, w.kb.listeners[ln][k], keyName), ln, k + 1, len, keyName)

\* KeyboardHandler.emit(keyName, data)
emit(w, keyName, data) ==
  LET s == [w EXCEPT !.out.emitted = Append(@, [name |-> keyName] @@ data),
                     !.out.namedAtStart = w.kb.listeners[keyName],
                     !.out.anyAtStart = w.kb.listeners["any"]]
      named == forEach(s, keyName, 1, Len(s.kb.listeners[keyName]), keyName)
  IN IF named.out.threw THEN named
     ELSE forEach(named, "any", 1, Len(named.kb.listeners["any"]), keyName)

processKeyBuffer_first(w) ==
  IF Len(w.kb.keyBuffer) = 0 THEN w
  ELSE LET first == w.kb.keyBuffer[1]
           keyName == normalizeKey(first.str, first.key)
       IN emit([w EXCEPT !.kb.keyBuffer = <<>>], keyName,
               [from |-> first, burst |-> w.kb.keyBuffer])

processKeyBuffer_firstKept(w) ==
  IF Len(w.kb.keyBuffer) = 0 THEN w
  ELSE LET first == w.kb.keyBuffer[1]
           keyName == normalizeKey(first.str, first.key)
       IN emit(w, keyName, [from |-> first, burst |-> w.kb.keyBuffer])

\* KeyboardHandler.processKeyBuffer()
processKeyBuffer(w) ==
  IF Len(w.kb.keyBuffer) = 0 THEN w
  ELSE LET last == w.kb.keyBuffer[Len(w.kb.keyBuffer)]
           keyName == normalizeKey(last.str, last.key)
       IN emit([w EXCEPT !.kb.keyBuffer = <<>>], keyName,
               [from |-> last, burst |-> w.kb.keyBuffer])

handleKeypress_noCtrlC(w, str, key) ==
  [w EXCEPT !.kb.keyBuffer = Append(@, Raw(str, key)),
            !.kb.debounceTimer = "armed"]

\* KeyboardHandler.handleKeypress(str, key)
handleKeypress(w, str, key) ==
  IF key.some /\ key.ctrl /\ key.name = "c" THEN exit(disableRawMode(w), 0)
  ELSE [w EXCEPT !.kb.keyBuffer = Append(@, Raw(str, key)),
                 !.kb.debounceTimer = "armed"]

\* process.stdin emits 'keypress' to each of its n listeners, all of them
\* handleKeypress bound to the Key Source; nothing runs once the process is gone.
RECURSIVE deliver(_, _, _)
deliver(w, raw, n) ==
  IF n = 0 \/ ~w.proc.alive THEN w
  ELSE deliver(handleKeypress(w, raw.str, raw.key), raw, n - 1)

\* The debounce timer's callback; an error thrown by a subscriber leaves it
\* uncaught, and the uncaughtException hook ends the process.
debounceFires(w) ==
  LET p == processKeyBuffer([w EXCEPT !.kb.debounceTimer = "fired"]) IN
  IF p.out.threw THEN fatalHook(p) ELSE p

\* Selector.run() up to its first await: the poll loop is entered with isActive set.
runStart(w) ==
  LET a == [w EXCEPT !.sel.isActive = TRUE, !.sel.previousLineCount = 0]
      r == render(enableRawMode(a), FALSE)
  IN IF r.out.threw THEN [r EXCEPT !.sel.pc = "failed"]
     ELSE [on(r, "any", SelCb) EXCEPT !.sel.pc = "polling"]

runFinish_noResult(w) ==
  LET d == disableRawMode(off(w, "any", SelCb)) IN [d EXCEPT !.sel.pc = "done"]

\* Selector.run() after the poll loop has seen isActive false: clean up, erase the
\* last render, print the cancellation notice (a blank line and the notice, which
\* leave the cursor two rows down) when there is no result, and return.
runFinish(w) ==
  LET d == disableRawMode(off(w, "any", SelCb))
      c == IF d.sel.previousLineCount # 0
           THEN Selector_clearLines(d, d.sel.previousLineCount) ELSE d
  IN [c EXCEPT !.sel.pc = "done",
               !.sel.returned = c.sel.result,
               !.sel.cursor = IF c.sel.result = Null THEN @ + 2 ELSE @]

\* items.findIndex(item => item.key === defaultKey): -1 when there is none.
findIndex(items, key) == IndexOf(items, key) - 1

\* selectWithArrows(options, promptText, defaultKey) up to its await: the items
\* are the options in their order, the default index is that of defaultKey when
\* defaultKey is given and found, else 0; the Selector is created and run.
selectWithArrows(w, options, defaultKey) ==
  LET index == findIndex(options, defaultKey)
      defaultIndex == IF ~Falsy(defaultKey) /\ index # -1 THEN index ELSE 0
  IN runStart([w EXCEPT !.sel.pc = "idle",
                        !.sel.items = options,
                        !.sel.defaultIndex = defaultIndex,
                        !.sel.selectedIndex = defaultIndex,
                        !.sel.caller = "selectWithArrows"])

selectWithArrowsFinish_noExit(w) == [w EXCEPT !.sel.returnedKey = w.sel.returned]

\* selectWithArrows after selector.run() has returned: process.exit(1) without a
\* result, else return result.key.
selectWithArrowsFinish(w) ==
  IF w.sel.returned = Null THEN exit(w, 1)
  ELSE [w EXCEPT !.sel.returnedKey = w.sel.returned]

\* ------------------------------------------------------- Progress Tracker
\* A step of the tracker: { key, label, status, detail }.
Step(k, l, s, d) == [key |-> k, label |-> l, status |-> s, detail |-> d]

\* this.steps.find(s => s.key === key), as the 1-based index of the first step
\* with the key; 0 when there is none.
find(steps, key) ==
  IF \E i \in 1..Len(steps) : steps[i].key = key
  THEN CHOOSE i \in 1..Len(steps) :
         steps[i].key = key /\ \A j \in 1..(i - 1) : steps[j].key # key
  ELSE 0

\* StepTracker.getStatusDisplay(status)
getStatusDisplay(status) ==
  CASE status = "done" -> [symbol |-> "filled", color |-> "green"]
    [] status = "pending" -> [symbol |-> "hollow", color |-> "green.dim"]
    [] status = "running" -> [symbol |-> "hollow", color |-> "cyan"]
    [] status = "error" -> [symbol |-> "filled", color |-> "red"]
    [] status = "skipped" -> [symbol |-> "hollow", color |-> "yellow"]
    [] OTHER -> [symbol |-> " ", color |-> "white"]

\* One line of StepTracker.render(): the branch glyph, the status symbol and its
\* colour, the label (gray when pending, white otherwise) and the detail shown in
\* parentheses ("" when the detail is falsy and nothing is shown).
StepLine(step, isLast) ==
  [branch |-> IF isLast THEN "closing" ELSE "tee",
   symbol |-> getStatusDisplay(step.status).symbol,
   color |-> getStatusDisplay(step.status).color,
   label |-> step.label,
   labelColor |-> IF step.status = "pending" THEN "gray" ELSE "white",
   detail |-> IF Falsy(step.detail) THEN "" ELSE step.detail]

\* StepTracker.render(): the title line, then one line per step; the lines are
\* joined with "\n".
Tracker_render(t) ==
  <<[title |-> t.title]>> \o
    [i \in 1..Len(t.steps) |-> StepLine(t.steps[i], i = Len(t.steps))]

\* content.split('\n').length
LineCount(content) == Len(content)

\* LiveUpdater.queue(renderFn)
queue(w, renderFn) == [w EXCEPT !.upd.updateQueue = Append(@, renderFn)]

\* The render function createLiveTracker queues: () => tracker.render().  n tells
\* the closures apart: the n-th one queued since the queue was last emptied.
TrackerRenderFn(w) == [fn |-> "tracker.render", n |-> Len(w.upd.updateQueue) + 1]

\* Calling a render function: tracker.render() on the tracker as it is now.
CallRenderFn(w, renderFn) == Tracker_render(w.trk)

\* this.refreshCallback(): a callback of the application ("obs"), one that throws
\* ("throws"), or the one createLiveTracker attaches ("live"):
\* () => { updater.queue(() => tracker.render()) }
refreshCallback(w) ==
  LET v == [w EXCEPT !.out.refreshes = Append(@, w.trk.steps)] IN
  CASE w.trk.refreshCallback = "obs" -> v
    [] w.trk.refreshCallback = "throws" -> [v EXCEPT !.out.threw = TRUE]
    [] w.trk.refreshCallback = "live" -> queue(v, TrackerRenderFn(v))

maybeRefresh_noCatch(w) ==
  IF w.trk.refreshCallback # Null THEN refreshCallback(w) ELSE w

\* StepTracker.maybeRefresh(): the callback's exception is caught and ignored.
maybeRefresh(w) ==
  IF w.trk.refreshCallback # Null
  THEN [refreshCallback(w) EXCEPT !.out.threw = FALSE]
  ELSE w

\* StepTracker.attachRefresh(callback)
attachRefresh(w, callback) == [w EXCEPT !.trk.refreshCallback = callback]

add_noFind(w, key, label) ==
  maybeRefresh([w EXCEPT !.trk.steps = Append(@, Step(key, label, "pending", ""))])

add_refreshFirst(w, key, label) ==
  IF find(w.trk.steps, key) = 0
  THEN [maybeRefresh(w) EXCEPT !.trk.steps = Append(@, Step(key, label, "pending", ""))]
  ELSE w

\* StepTracker.add(key, label)
add(w, key, label) ==
  IF find(w.trk.steps, key) = 0
  THEN maybeRefresh([w EXCEPT !.trk.steps = Append(@, Step(key, label, "pending", ""))])
  ELSE w

update_front(w, key, status, detail) ==
  LET i == find(w.trk.steps, key) IN
  maybeRefresh(
    IF i = 0
    THEN [w EXCEPT !.trk.steps = <<Step(key, key, status, detail)>> \o @]
    ELSE [w EXCEPT !.trk.steps[i].status = status,
                   !.trk.steps[i].detail = IF ~Falsy(detail) THEN detail ELSE @])

update_detailAlways(w, key, status, detail) ==
  LET i == find(w.trk.steps, key) IN
  maybeRefresh(
    IF i = 0
    THEN [w EXCEPT !.trk.steps = Append(@, Step(key, key, status, detail))]
    ELSE [w EXCEPT !.trk.steps[i].status = status,
                   !.trk.steps[i].detail = detail])

update_noCreate(w, key, status, detail) ==
  LET i == find(w.trk.steps, key) IN
  maybeRefresh(
    IF i = 0
    THEN w
    ELSE [w EXCEPT !.trk.steps[i].status = status,
                   !.trk.steps[i].detail = IF ~Falsy(detail) THEN detail ELSE @])

\* this.statusOrder of the StepTracker's constructor
statusOrder(status) ==
  CASE status = "pending" -> 0
    [] status = "running" -> 1
    [] status = "done" -> 2
    [] status = "error" -> 3
    [] status = "skipped" -> 4

update_ordered(w, key, status, detail) ==
  LET i == find(w.trk.steps, key) IN
  maybeRefresh(
    IF i = 0
    THEN [w EXCEPT !.trk.steps = Append(@, Step(key, key, status, detail))]
    ELSE [w EXCEPT !.trk.steps[i].status =
                      IF statusOrder(status) >= statusOrder(@) THEN status ELSE @,
                   !.trk.steps[i].detail = IF ~Falsy(detail) THEN detail ELSE @])

\* StepTracker.update(key, status, detail)
update(w, key, status, detail) ==
  LET i == find(w.trk.steps, key) IN
  maybeRefresh(
    IF i = 0
    THEN [w EXCEPT !.trk.steps = Append(@, Step(key, key, status, detail))]
    ELSE [w EXCEPT !.trk.steps[i].status = status,
                   !.trk.steps[i].detail = IF ~Falsy(detail) THEN detail ELSE @])

\* StepTracker.start / complete / error / skip (key, detail = '')
start(w, key, detail) == update(w, key, "running", detail)
complete(w, key, detail) == update(w, key, "done", detail)
error(w, key, detail) == update(w, key, "error", detail)
skip(w, key, detail) == update(w, key, "skipped", detail)

\* trk.cursor is the row of the terminal's cursor, counted downwards from the
\* first row of the last render display() wrote (no line is wider than the
\* terminal, and the terminal does not scroll).
\* StepTracker.clearPreviousRender(): lastRenderLines times, moves the cursor up
\* one row and clears that row.
clearPreviousRender(w) ==
  LET n == w.trk.lastRenderLines IN
  IF n > 0
  THEN [w EXCEPT !.out.rows = @ \cup ((w.trk.cursor - n)..(w.trk.cursor - 1)),
                 !.trk.cursor = @ - n]
  ELSE w

\* StepTracker.display(clearPrevious): the render is written from the cursor on,
\* without a newline after its last line, and its line count is kept.
display(w, clearPrevious) ==
  LET c == IF clearPrevious THEN clearPreviousRender(w) ELSE w
      rendered == Tracker_render(c.trk)
  IN [c EXCEPT !.out.drawn = Append(@, rendered),
               !.out.top = c.trk.cursor,
               !.trk.cursor = LineCount(rendered) - 1,
               !.trk.lastRenderLines = LineCount(rendered)]

\* ------------------------------------------------------------ Live Updater
\* upd.timers is the number of interval timers of the updater that are scheduled;
\* upd.cursor is the row of the terminal's cursor counted downwards from the first
\* row of the content the updater wrote last, and upd.shown the number of lines
\* of that content (no line is wider than the terminal, and the terminal does
\* not scroll).
LiveUpdater_start_noGuard(w) ==
  [w EXCEPT !.upd.isActive = TRUE, !.upd.updateInterval = "interval",
            !.upd.timers = @ + 1,
            !.hist.finished = FALSE]

LiveUpdater_start_noInterval(w) ==
  IF w.upd.isActive THEN w
  ELSE [w EXCEPT !.upd.isActive = TRUE, !.hist.finished = FALSE]

\* LiveUpdater.start(refreshRate): setInterval(() => this.processQueue(), interval)
LiveUpdater_start(w) ==
  IF w.upd.isActive THEN w
  ELSE [w EXCEPT !.upd.isActive = TRUE, !.upd.updateInterval = "interval",
                 !.upd.timers = @ + 1,
                 !.hist.finished = FALSE]

\* LiveUpdater.stop()
LiveUpdater_stop(w) ==
  IF ~w.upd.isActive THEN w
  ELSE [w EXCEPT !.upd.isActive = FALSE,
                 !.upd.updateInterval = Null,
                 !.upd.timers = IF w.upd.updateInterval # Null THEN @ - 1 ELSE @]

\* LiveUpdater.clearLines(count): nothing is written for 0; else the cursor is
\* saved, count times moved up one row which is cleared, and restored.
LiveUpdater_clearLines(w, count) ==
  IF count <= 0 THEN w
  ELSE [w EXCEPT !.out.erased = Append(@, count),
                 !.out.rows = @ \cup ((w.upd.cursor - count)..(w.upd.cursor - 1))]

\* process.stdout.write(content), or console.log(content) which adds a newline:
\* the content begins on the cursor's row.
LiveUpdater_write(w, content, newline) ==
  [w EXCEPT !.out.drawn = Append(@, content),
            !.out.top = w.upd.cursor,
            !.upd.shown = LineCount(content),
            !.upd.cursor = IF newline THEN LineCount(content) ELSE LineCount(content) - 1]

processQueue_first(w) ==
  IF Len(w.upd.updateQueue) = 0 THEN w
  ELSE LET renderFn == w.upd.updateQueue[1]
           c == LiveUpdater_clearLines([w EXCEPT !.upd.updateQueue = <<>>],
                                       w.upd.currentLines)
           content == CallRenderFn(c, renderFn)
       IN [LiveUpdater_write(c, content, FALSE) EXCEPT
             !.out.called = Append(@, renderFn),
             !.upd.currentLines = LineCount(content)]

\* LiveUpdater.processQueue()
processQueue(w) ==
  IF Len(w.upd.updateQueue) = 0 THEN w
  ELSE LET renderFn == w.upd.updateQueue[Len(w.upd.updateQueue)]
           c == LiveUpdater_clearLines([w EXCEPT !.upd.updateQueue = <<>>],
                                       w.upd.currentLines)
           content == CallRenderFn(c, renderFn)
       IN [LiveUpdater_write(c, content, FALSE) EXCEPT
             !.out.called = Append(@, renderFn),
             !.upd.currentLines = LineCount(content)]

finish_noStop(w, renderFn) ==
  LET c == LiveUpdater_clearLines(w, w.upd.currentLines)
      content == CallRenderFn(c, renderFn)
  IN [LiveUpdater_write(c, content, TRUE) EXCEPT
        !.out.called = Append(@, renderFn),
        !.hist.finished = TRUE]

\* LiveUpdater.finish(renderFn)
finish(w, renderFn) ==
  LET c == LiveUpdater_clearLines(LiveUpdater_stop(w), w.upd.currentLines)
      content == CallRenderFn(c, renderFn)
  IN [LiveUpdater_write(c, content, TRUE) EXCEPT
        !.out.called = Append(@, renderFn),
        !.hist.finished = TRUE]

\* ----------------------------------------------------------------- actions
\* new StepTracker(title)
NoTracker ==
  [title |-> "title", steps |-> <<>>, refreshCallback |-> Null, lastRenderLines |-> 0,
   cursor |-> 0]

\* new LiveUpdater()
NoUpdater ==
  [isActive |-> FALSE, updateQueue |-> <<>>, currentLines |-> 0, updateInterval |-> Null,
   timers |-> 0, cursor |-> 0, shown |-> 0]

NoSelector ==
  [pc |-> "none", items |-> <<>>, defaultIndex |-> 0, selectedIndex |-> 0,
   isActive |-> FALSE, result |-> Null, previousLineCount |-> 0, returned |-> Null,
   cursor |-> 0, painted |-> {}, caller |-> Null, returnedKey |-> Null]

Init ==
  /\ kb = [isRawMode |-> FALSE, listeners |-> [n \in ListenerNames |-> <<>>],
           keyBuffer |-> <<>>, debounceTimer |-> "null"]
  /\ \E tty \in BOOLEAN :
       stdin = [isTTY |-> tty, isRaw |-> FALSE, flowing |-> FALSE, keypress |-> 0]
  /\ peer = [isRawMode |-> FALSE, keypress |-> 0]
  /\ proc = [alive |-> TRUE, exitCode |-> 0]
  /\ sel = NoSelector
  /\ wait = {}
  /\ trk = NoTracker
  /\ upd = NoUpdater
  /\ out = NoOut("init", NoRaw)
  /\ hist = [rawCalls |-> <<>>, ups |-> 0, downs |-> 0, last |-> "", finished |-> FALSE,
             log |-> <<>>, delivered |-> <<>>]

\* The application calls keyboard.enableRawMode().
EnableRawMode ==
  /\ proc.alive
  /\ Becomes(enableRawMode(Begin("enableRawMode", NoRaw)))

\* The application calls keyboard.disableRawMode().
DisableRawMode ==
  /\ proc.alive
  /\ Becomes(disableRawMode(Begin("disableRawMode", NoRaw)))

\* keyboard.cleanup() is called by the application.
Cleanup ==
  /\ proc.alive
  /\ Becomes(cleanup(Begin("cleanup", NoRaw)))

\* enableRawMode(), disableRawMode() and cleanup() are called on the second
\* KeyboardHandler object.
PeerEnableRawMode ==
  /\ proc.alive
  /\ Becomes(Peer_enableRawMode(Begin("peer.enableRawMode", NoRaw)))

PeerDisableRawMode ==
  /\ proc.alive
  /\ Becomes(Peer_disableRawMode(Begin("peer.disableRawMode", NoRaw)))

PeerCleanup ==
  /\ proc.alive
  /\ Becomes(Peer_cleanup(Begin("peer.cleanup", NoRaw)))

\* The event names the application subscribes its own callbacks to.
SubNames == {"any", "enter"}

\* Registrations held by the registry.
Registered == LET L == kb.listeners IN Len(L["any"]) + Len(L["enter"])

\* The application calls keyboard.on(name, callback).
On(name, c) ==
  /\ proc.alive
  /\ Registered < MaxListeners
  /\ Becomes(on(Begin("on", NoRaw), name, Cb("obs", c)))

\* The application calls keyboard.off(name, callback) for a registered callback.
Off(name, c) ==
  /\ proc.alive
  /\ Cb("obs", c) \in Range(kb.listeners[name])
  /\ Becomes(off(Begin("off", NoRaw), name, Cb("obs", c)))

\* KeyboardHandler.waitForKey(): a new handler is registered under 'any'.
WaitForKey ==
  /\ proc.alive
  /\ Registered < MaxListeners
  /\ \E i \in 1..MaxListeners :
       /\ Cb("wait", i) \notin wait
       /\ \A j \in 1..(i - 1) : Cb("wait", j) \in wait
       /\ Becomes(waitForKey(Begin("waitForKey", NoRaw), Cb("wait", i)))

\* getKey() is called: it runs up to its await; the promise's handler is pending.
GetKey ==
  /\ proc.alive
  /\ Registered < MaxListeners
  /\ Cb("getKey", 1) \notin wait
  /\ Becomes(getKey(Begin("getKey", NoRaw), Cb("getKey", 1)))

\* The terminal delivers a raw keypress: stdin is flowing and has a listener.
Keypress(raw, cap) ==
  /\ proc.alive
  /\ stdin.flowing
  /\ stdin.keypress > 0
  /\ Len(kb.keyBuffer) + stdin.keypress <= cap
  /\ Becomes(deliver(Begin("keypress", raw), raw, stdin.keypress))

\* Another up or down key may be handled within the bound on moves.
MayHandle(key) == key \in {"up", "down"} => hist.ups + hist.downs < MaxMoves

\* The debounce timer fires.
TimerFire ==
  /\ proc.alive
  /\ kb.debounceTimer = "armed"
  /\ LET last == kb.keyBuffer[Len(kb.keyBuffer)] IN
       SelCb \in Range(kb.listeners["any"]) => MayHandle(normalizeKey(last.str, last.key))
  /\ Becomes(debounceFires(Begin("timer", NoRaw)))

\* The first observer, subscribed once to every event.
Watcher == Cb("obs", 1)

\* How many times the handler that produced o invoked the Watcher.
TimesSeen(o) ==
  Cardinality({i \in 1..Len(o.invoked) : o.invoked[i] = [cb |-> Watcher, under |-> "any"]})

\* The keypresses whose events the handler that produced o gave the Watcher.
Seen(o) ==
  [i \in 1..TimesSeen(o) |-> o.emitted[1].from]

\* Keypress, the keypress being added to the log.
KeypressLogged(raw) ==
  /\ proc.alive
  /\ stdin.flowing
  /\ stdin.keypress > 0
  /\ Len(kb.keyBuffer) + stdin.keypress <= MaxBuffer
  /\ Len(hist.log) < MaxPresses
  /\ Becomes([deliver(Begin("keypress", raw), raw, stdin.keypress) EXCEPT
               !.hist.log = Append(@, raw)])

\* TimerFire, the events given to the Watcher being added to the deliveries.
TimerFireLogged ==
  /\ proc.alive
  /\ kb.debounceTimer = "armed"
  /\ Becomes(LET r == debounceFires(Begin("timer", NoRaw)) IN
             [r EXCEPT !.hist.delivered = @ \o Seen(r.out)])

\* The Watcher subscribes to every event, once.
Watch ==
  /\ proc.alive
  /\ Watcher \notin Range(kb.listeners["any"])
  /\ Becomes(on(Begin("on", NoRaw), "any", Watcher))

\* The process ends normally: process.exit(code), or nothing left to run.
NormalExit(code) ==
  /\ proc.alive
  /\ Becomes(exit(Begin("exit", NoRaw), code))

\* An exception reaches the top of the event loop.
UncaughtException ==
  /\ proc.alive
  /\ Becomes(fatalHook(Begin("uncaughtException", NoRaw)))

\* A rejected promise is left unhandled.
UnhandledRejection ==
  /\ proc.alive
  /\ Becomes(fatalHook(Begin("unhandledRejection", NoRaw)))

\* new Selector({items, defaultIndex})
NewSelector(items, defaultIndex) ==
  /\ proc.alive
  /\ sel.pc = "none"
  /\ Becomes([Begin("newSelector", NoRaw) EXCEPT
       !.sel = [NoSelector EXCEPT !.pc = "idle", !.items = items,
                                  !.defaultIndex = defaultIndex,
                                  !.selectedIndex = defaultIndex]])

\* The item lists a Selector is constructed with: 1..MaxItems items, or a list
\* with a null entry.
ItemLists == {Items(n) : n \in 1..MaxItems} \cup {<<"a", Null>>}

\* selector.run() is called.
Run ==
  /\ proc.alive
  /\ sel.pc = "idle"
  /\ Becomes(runStart(Begin("run", NoRaw)))

PollWake_onKeyOnly ==
  /\ proc.alive
  /\ sel.pc = "polling"
  /\ ~sel.isActive
  /\ kb.debounceTimer = "armed"
  /\ Becomes(LET r == runFinish(Begin("poll", NoRaw)) IN
             IF sel.caller = "selectWithArrows" THEN selectWithArrowsFinish(r) ELSE r)

\* The poll loop of run() wakes up and finds isActive false; run() returns and
\* its caller, when that is selectWithArrows, continues.
PollWake ==
  /\ proc.alive
  /\ sel.pc = "polling"
  /\ ~sel.isActive
  /\ Becomes(LET r == runFinish(Begin("poll", NoRaw)) IN
             IF sel.caller = "selectWithArrows" THEN selectWithArrowsFinish(r) ELSE r)

\* The options and the default keys selectWithArrows is called with: no to
\* MaxItems options; no default key, an empty one, one of the options, or none
\* of them.
OptionLists == {Items(n) : n \in 0..MaxItems}
DefaultKeys == {Null, "", "a", "b", "z"}

\* selectWithArrows(options, prompt, defaultKey) is called.
SelectWithArrows(options, defaultKey) ==
  /\ proc.alive
  /\ sel.pc = "none"
  /\ Becomes(selectWithArrows([Begin("selectWithArrows", NoRaw) EXCEPT !.out.key = defaultKey],
                              options, defaultKey))

\* selector.handleKey(key) called directly, as the repository's tests do, on a
\* Selector whose run() has not returned.
HandleKey(key) ==
  /\ proc.alive
  /\ sel.pc \in {"idle", "polling"}
  /\ MayHandle(key)
  /\ Becomes(handleKey([Begin("handleKey", NoRaw) EXCEPT !.out.key = key], key))

\* The keys, labels, statuses and details the application gives the tracker.
StepKeys == {"setup", "download"}
Labels == {"Setup", "Download"}
Statuses == {"pending", "running", "done", "error", "skipped"}
Details == {"", "10%", "50%"}

\* A call of a tracker method with its arguments.
TrackerCall(op, k, l, s, d) == [Begin(op, NoRaw) EXCEPT !.out.arg = Step(k, l, s, d)]

\* With the Live Updater attached, a refresh queues a render function.
QueueRoom == trk.refreshCallback = "live" => Len(upd.updateQueue) < MaxQueue

\* tracker.attachRefresh(callback)
AttachRefresh(callback) ==
  /\ proc.alive
  /\ trk.refreshCallback # callback
  /\ Becomes(attachRefresh(Begin("attachRefresh", NoRaw), callback))

\* tracker.add(key, label)
Add(k, l) ==
  /\ proc.alive
  /\ QueueRoom
  /\ Becomes(add(TrackerCall("add", k, l, "", ""), k, l))

\* tracker.update(key, status, detail)
Update(k, s, d) ==
  /\ proc.alive
  /\ QueueRoom
  /\ Becomes(update(TrackerCall("update", k, "", s, d), k, s, d))

\* tracker.start(key, detail)
Start(k, d) ==
  /\ proc.alive
  /\ QueueRoom
  /\ Becomes(start(TrackerCall("start", k, "", "running", d), k, d))

\* tracker.complete(key, detail)
Complete(k, d) ==
  /\ proc.alive
  /\ QueueRoom
  /\ Becomes(complete(TrackerCall("complete", k, "", "done", d), k, d))

\* tracker.error(key, detail)
Error(k, d) ==
  /\ proc.alive
  /\ QueueRoom
  /\ Becomes(error(TrackerCall("error", k, "", "error", d), k, d))

\* tracker.skip(key, detail)
Skip(k, d) ==
  /\ proc.alive
  /\ QueueRoom
  /\ Becomes(skip(TrackerCall("skip", k, "", "skipped", d), k, d))

\* tracker.display(clearPrevious)
Display(clearPrevious) ==
  /\ proc.alive
  /\ Becomes(display([Begin("display", NoRaw) EXCEPT
                       !.out.key = IF clearPrevious THEN "clearPrevious" ELSE ""],
                     clearPrevious))

\* createLiveTracker(title): a new tracker and a new updater, the tracker's
\* refresh callback queueing the tracker's render on the updater.
CreateLiveTracker ==
  /\ proc.alive
  /\ trk = NoTracker
  /\ upd = NoUpdater
  /\ Becomes(attachRefresh(Begin("createLiveTracker", NoRaw), "live"))

\* updater.start()
UpdaterStart ==
  /\ proc.alive
  /\ Becomes(LiveUpdater_start(Begin("LiveUpdater.start", NoRaw)))

\* updater.stop()
UpdaterStop ==
  /\ proc.alive
  /\ Becomes(LiveUpdater_stop(Begin("LiveUpdater.stop", NoRaw)))

\* The interval timer of start() fires: () => { this.processQueue() }
Tick ==
  /\ proc.alive
  /\ upd.timers > 0
  /\ Becomes(processQueue(Begin("tick", NoRaw)))

\* updater.finish(() => tracker.render())
Finish ==
  /\ proc.alive
  /\ Becomes(LET w == Begin("finish", NoRaw) IN
             finish(w, [fn |-> "tracker.render", n |-> 0]))

\* The raw characters and the descriptors given to normalizeKey: a character may
\* be missing (undefined) or empty; a descriptor may be missing, or have no name.
NormStrs == {Null, "", "x", "\r", " "}
NormNames ==
  {"up", "down", "left", "right", "return", "escape", "space", "tab", "backspace",
   "x", "f1", ""}
NormKeys == {NoKey} \cup {Key(n, c) : n \in NormNames, c \in BOOLEAN}

\* keyboard.normalizeKey(str, key) is called.
NormalizeKey(str, key) ==
  /\ proc.alive
  /\ Becomes([Begin("normalizeKey", Raw(str, key)) EXCEPT !.out.key = normalizeKey(str, key)])

\* The Key Source alone, with the application's subscribers.
KeysK == {KeyReturn, KeyX, CtrlC}

NextKeys ==
  \/ EnableRawMode
  \/ \E name \in SubNames, c \in Observers : On(name, c)
  \/ \E name \in SubNames, c \in Observers : Off(name, c)
  \/ WaitForKey
  \/ GetKey
  \/ \E raw \in KeysK : Keypress(raw, MaxBuffer)
  \/ TimerFire

SpecKeys == Init /\ [][NextKeys]_vars

\* The raw-mode flag and the ways the process ends.
NextRaw ==
  \/ EnableRawMode
  \/ DisableRawMode
  \/ \E raw \in KeysK : Keypress(raw, MaxBuffer)
  \/ TimerFire
  \/ \E code \in {0, 1} : NormalExit(code)
  \/ UncaughtException
  \/ UnhandledRejection

SpecRaw == Init /\ [][NextRaw]_vars

\* The Key Source with a subscriber whose deliveries are followed, next to
\* waitForKey() promises.
NextOrder ==
  \/ EnableRawMode
  \/ DisableRawMode
  \/ Watch
  \/ Off("any", 1)
  \/ WaitForKey
  \/ \E raw \in KeysK : KeypressLogged(raw)
  \/ TimerFireLogged

SpecOrder == Init /\ [][NextOrder]_vars

\* Two KeyboardHandler objects on the same input stream.
NextPeer ==
  \/ EnableRawMode
  \/ DisableRawMode
  \/ Cleanup
  \/ PeerEnableRawMode
  \/ PeerDisableRawMode
  \/ PeerCleanup

SpecPeer == Init /\ [][NextPeer]_vars

\* The Selector on top of the Key Source.
NextSel ==
  \/ \E items \in ItemLists : \E d \in 0..(Len(items) - 1) : NewSelector(items, d)
  \/ Run
  \/ PollWake
  \/ \E key \in KeyNames : HandleKey(key)
  \/ \E raw \in RawKeys : Keypress(raw, MaxBurst)
  \/ TimerFire

SpecSel == Init /\ [][NextSel]_vars

\* Two consumers of the shared Key Source: a Selector, and a press-any-key prompt
\* or the application, which may disable raw mode while the Selector is running.
KeysShare == {KeyReturn, KeyX}

NextShare ==
  \/ \E items \in ItemLists : NewSelector(items, 0)
  \/ Run
  \/ PollWake
  \/ GetKey
  \/ EnableRawMode
  \/ DisableRawMode
  \/ \E raw \in KeysShare : Keypress(raw, MaxBurst)
  \/ TimerFire

SpecShare == Init /\ [][NextShare]_vars

\* The Progress Tracker alone, with a refresh callback of the application.  The
\* step setup is added, started and completed without a detail; the step download
\* reports its progress and is given every status.
NextTrk ==
  \/ \E callback \in {Null, "obs", "throws"} : AttachRefresh(callback)
  \/ \E k \in StepKeys, l \in Labels : Add(k, l)
  \/ \E s \in Statuses, d \in Details : Update("download", s, d)
  \/ \E d \in Details : Start("download", d)
  \/ \E d \in Details : Complete("download", d)
  \/ \E d \in Details : Error("download", d)
  \/ \E d \in Details : Skip("download", d)
  \/ Start("setup", "")
  \/ Complete("setup", "")

\* The tracker and the updater never read process.stdin: one terminal is enough.
InitTrk == Init /\ stdin.isTTY

SpecTrk == InitTrk /\ [][NextTrk]_vars

\* The tracker of createLiveTracker with its Live Updater.
NextLive ==
  \/ CreateLiveTracker
  \/ \E k \in StepKeys : Add(k, "Setup")
  \/ \E k \in StepKeys, d \in {"", "50%"} : Start(k, d)
  \/ \E k \in StepKeys : Complete(k, "")
  \/ UpdaterStart
  \/ UpdaterStop
  \/ Tick
  \/ Finish

SpecLive == InitTrk /\ [][NextLive]_vars

\* The tracker of createLiveTracker to which steps are added, with its Live
\* Updater, whose timer keeps firing while it is scheduled.
NextFlush ==
  \/ CreateLiveTracker
  \/ \E k \in StepKeys : Add(k, "Setup")
  \/ UpdaterStart
  \/ UpdaterStop
  \/ Tick
  \/ Finish

SpecFlushFair == InitTrk /\ [][NextFlush]_vars /\ WF_vars(Tick)

\* The tracker displayed by the application after its calls.
NextDisp ==
  \/ \E k \in StepKeys : Add(k, "Setup")
  \/ \E k \in StepKeys : Start(k, "")
  \/ \E clearPrevious \in BOOLEAN : Display(clearPrevious)

SpecDisp == InitTrk /\ [][NextDisp]_vars

\* A Selector run by the application, or by selectWithArrows, with any item list
\* and any default index; its keys come from the terminal only.
NextPick ==
  \/ \E items \in OptionLists : \E d \in -1..MaxItems : NewSelector(items, d)
  \/ \E options \in OptionLists, defaultKey \in DefaultKeys :
        SelectWithArrows(options, defaultKey)
  \/ Run
  \/ PollWake
  \/ \E raw \in RawKeys : Keypress(raw, MaxBurst)
  \/ TimerFire

SpecPick == Init /\ [][NextPick]_vars

\* A Selector of two items run by the application, its keys coming from the
\* terminal and its poll timer firing for as long as the loop waits.
KeysPoll == {KeyUp, KeyReturn, KeyEscape, CtrlC}

NextPoll ==
  \/ NewSelector(<<"a", "b">>, 0)
  \/ Run
  \/ PollWake
  \/ \E raw \in KeysPoll : Keypress(raw, MaxBurst)
  \/ TimerFire

SpecPollFair == Init /\ [][NextPoll]_vars /\ WF_vars(PollWake)

\* normalizeKey on its own.
NextNorm == \E str \in NormStrs, key \in NormKeys : NormalizeKey(str, key)

SpecNorm == Init /\ [][NextNorm]_vars

Next ==
  NextKeys \/ NextRaw \/ NextOrder \/ NextPeer \/ NextPoll \/ NextSel \/ NextShare \/ NextTrk \/ NextLive \/ NextFlush \/ NextDisp
    \/ NextPick
    \/ NextNorm

Spec == Init /\ [][Next]_vars

\* ------------------------------------------------------------------ claims
\* What the last step did, read from out.
Fired == out.emitted # <<>>
Count(s, x) == Cardinality({i \in 1..Len(s) : s[i] = x})
TimesInvoked(o, ln, cb) == Cardinality({i \in 1..Len(o.invoked) : o.invoked[i] = [cb |-> cb, under |-> ln]})
\* The Selector handled a key in the step that produced o: by a direct call of
\* handleKey, or as a subscriber of an emitted event.
SelHandled(o) ==
  \/ o.op = "handleKey"
  \/ \E i \in 1..Len(o.invoked) : o.invoked[i].cb = SelCb
\* The key it handled.
SelKey(o) == IF o.op = "handleKey" THEN o.key ELSE o.emitted[1].name
RunEnded(pc) == pc \in {"done", "failed"}

\* C1: whenever run() ends - returning after enter or escape, or rejecting because
\* render threw - the Selector's 'any' listener is no longer registered and raw
\* mode is disabled.
C1_CleanupOnEveryExit ==
  [][(~RunEnded(sel.pc) /\ RunEnded(sel'.pc)) =>
        (~kb'.isRawMode /\ SelCb \notin Range(kb'.listeners["any"]))]_vars

\* C2: every callback registered under 'any' when an emission starts is invoked
\* for that event, once per registration, whatever the event's name and whatever
\* the other subscribers do (no subscriber throwing).
C2_AnySubscribersGetEveryEvent ==
  (Fired /\ ~out.threw) =>
     \A cb \in Range(out.anyAtStart) :
        TimesInvoked(out, "any", cb) = Count(out.anyAtStart, cb)

\* C3: when a subscriber throws during a dispatch, the Key Source catches it: the
\* process goes on, and every subscriber registered for the event is still invoked.
ThrowerInvoked ==
  \E i \in 1..Len(out.invoked) :
     out.invoked[i].cb.kind = "obs" /\ Throws(out.invoked[i].cb.id)

C3_ThrowingSubscriberIsCaught ==
  (Fired /\ ThrowerInvoked) =>
     /\ proc.alive
     /\ \A cb \in Range(out.anyAtStart) : TimesInvoked(out, "any", cb) >= 1
     /\ \A cb \in Range(out.namedAtStart) : TimesInvoked(out, out.emitted[1].name, cb) >= 1

\* C4: Resolved and Cancelled are terminal: once run() has started and an enter or
\* escape has been handled, a further key handled - in the interval before the
\* poll loop wakes up, or later - changes neither selectedIndex nor the result.
C4_TerminalPhasesAreFinal ==
  [][(SelHandled(out') /\ sel.pc \in {"polling", "done"} /\ ~sel.isActive) =>
        (sel'.selectedIndex = sel.selectedIndex /\ sel'.result = sel.result)]_vars

\* C5: the debounce timer is pending exactly while keypresses are buffered; when it
\* fires, exactly one event is emitted, the normalization of the last keypress of
\* the burst, and the buffer is emptied, so the earlier keypresses are dropped; no
\* other step emits, and a keypress only buffers and re-arms the timer.
C5_DebounceCoalescing ==
  /\ [](proc.alive => (kb.debounceTimer = "armed" <=> kb.keyBuffer # <<>>))
  /\ [][LET fires == kb.debounceTimer = "armed" /\ kb'.debounceTimer = "fired"
            last == kb.keyBuffer[Len(kb.keyBuffer)]
        IN /\ fires =>
                /\ out'.emitted = <<[name |-> normalizeKey(last.str, last.key),
                                     from |-> last, burst |-> kb.keyBuffer]>>
                /\ kb'.keyBuffer = <<>>
           /\ out'.emitted # <<>> => fires
           /\ Len(kb'.keyBuffer) > Len(kb.keyBuffer) =>
                (out'.emitted = <<>> /\ kb'.debounceTimer = "armed")]_vars

\* A burst of two different keypresses was coalesced into one event.
C5_Witness ==
  /\ proc.alive
  /\ Len(out.emitted) = 1
  /\ Len(out.emitted[1].burst) >= 2
  /\ out.emitted[1].burst[1] # out.emitted[1].from

\* C6: with N >= 1 items and the initial index i in [0, N), selectedIndex equals
\* (i + downs - ups) mod N after any sequence of keys handled.
C6_WrapAround ==
  (sel.pc # "none" /\ sel.defaultIndex \in 0..(Len(sel.items) - 1)) =>
     sel.selectedIndex = (sel.defaultIndex + hist.downs - hist.ups) % Len(sel.items)

\* up from index 0 of three items has landed on index 2.
C6_Witness ==
  /\ Len(sel.items) = 3
  /\ sel.defaultIndex = 0
  /\ hist.ups = 1
  /\ hist.downs = 0
  /\ sel.selectedIndex = 2

\* C7: with the initial index in [0, N), run() returns the item at index
\* (i + downs - ups) mod N when the last key handled was enter, and null when it
\* was escape.  Step by step: a handled enter makes the item at selectedIndex the
\* result and ends the Active phase; a handled escape makes the result null and
\* ends it; a key other than up, down, enter and escape changes nothing; and
\* run() returns the result it finds when the poll loop wakes up.
C7_SelectionOutcome ==
  /\ [](LET n == Len(sel.items)
            reached == (sel.defaultIndex + hist.downs - hist.ups) % n
        IN (out.op = "poll" /\ sel.defaultIndex \in 0..(n - 1)) =>
              /\ hist.last = "enter" => sel.returned = sel.items[reached + 1]
              /\ hist.last = "escape" => sel.returned = Null)
  /\ [][/\ SelHandled(out') =>
            LET k == SelKey(out') IN
            /\ k = "enter" =>
                 /\ sel'.result = sel.items[sel.selectedIndex + 1]
                 /\ ~sel'.isActive
                 /\ sel'.selectedIndex = sel.selectedIndex
            /\ k = "escape" =>
                 /\ sel'.result = Null
                 /\ ~sel'.isActive
                 /\ sel'.selectedIndex = sel.selectedIndex
            /\ k \notin {"up", "down", "enter", "escape"} => sel' = sel
       /\ (sel.pc = "polling" /\ sel'.pc = "done") =>
            (sel'.returned = sel.result /\ sel'.result = sel.result)]_vars

\* Scenario A: [down, down, enter] from index 0 of three items returned item c.
C7_Witness ==
  /\ out.op = "poll"
  /\ hist.last = "enter"
  /\ sel.items = <<"a", "b", "c">>
  /\ sel.defaultIndex = 0
  /\ hist.downs = 2
  /\ hist.ups = 0
  /\ sel.returned = "c"

\* C8: after any sequence of enableRawMode/disableRawMode calls the flag is what the
\* last call alone sets, stdin has one keypress listener when enabled and none
\* otherwise, it flows exactly when enabled, and a terminal is raw exactly when
\* enabled.
C8_RawModeIdempotent ==
  hist.rawCalls # <<>> =>
     /\ kb.isRawMode <=> hist.rawCalls[Len(hist.rawCalls)] = "enable"
     /\ stdin.keypress = IF kb.isRawMode THEN 1 ELSE 0
     /\ stdin.flowing <=> kb.isRawMode
     /\ stdin.isTTY => (stdin.isRaw <=> kb.isRawMode)

\* enable, enable, disable has left the flag disabled.
C8_Witness ==
  /\ hist.rawCalls = <<"enable", "enable", "disable">>
  /\ ~kb.isRawMode
  /\ proc.alive

\* C9: once the process has ended, raw mode is disabled: the flag, the terminal
\* setting and the delivery.
C9_RawModeRestoredAtExit ==
  ~proc.alive => (~kb.isRawMode /\ ~stdin.isRaw /\ ~stdin.flowing)

\* The process ended by an unhandled rejection while raw mode was enabled.
C9_Witness ==
  /\ ~proc.alive
  /\ out.op = "unhandledRejection"
  /\ stdin.isTTY
  /\ hist.rawCalls = <<"enable", "disable", "disable">>

\* C10: a Ctrl+C keypress is never buffered or emitted and no subscriber is invoked
\* for it; it disables raw mode and ends the process with exit code 0; the pending
\* debounce timer is cancelled, and a process that has ended takes no step.
C10_CtrlCBypassesEvents ==
  /\ [](/\ CtrlC \notin Range(kb.keyBuffer)
        /\ \A i \in 1..Len(out.emitted) : out.emitted[i].from # CtrlC
        /\ (out.op = "keypress" /\ out.raw = CtrlC) =>
              /\ ~proc.alive
              /\ proc.exitCode = 0
              /\ ~kb.isRawMode
              /\ out.emitted = <<>>
              /\ out.invoked = <<>>
              /\ kb.debounceTimer # "armed")
  /\ [][proc.alive]_vars

\* Ctrl+C arrived while a keypress was waiting in the buffer, with a subscriber
\* registered until then.
C10_Witness ==
  /\ out.op = "keypress"
  /\ out.raw = CtrlC
  /\ kb.keyBuffer # <<>>
  /\ kb.debounceTimer = "cleared"

\* C11: getKey() pairs its enableRawMode() with a disableRawMode(): once the
\* promise of getKey() has resolved, raw mode is disabled again.
C11_GetKeyRestoresRawMode ==
  (\E i \in 1..Len(out.resolved) : out.resolved[i].cb.kind = "getKey") => ~kb.isRawMode

\* C12: while raw mode stays disabled, a consumer that is still registered
\* receives no key event, and a Selector that is Active stays in its poll loop.
C12_DisableStopsDelivery ==
  [][(~kb.isRawMode /\ ~kb'.isRawMode) =>
        /\ out'.invoked = <<>>
        /\ (sel.pc = "polling" /\ sel.isActive) =>
              (sel'.pc = "polling" /\ sel'.isActive)]_vars

\* The tracker calls that update a step, and the step a call was about.
UpdateOps == {"update", "start", "complete", "error", "skip"}
TrackerOps == UpdateOps \cup {"add"}
StepOf(steps, k) == steps[find(steps, k)]
KeysOf(steps) == {steps[i].key : i \in 1..Len(steps)}

\* C13: add(k, label) on a tracker that already has a step with key k, created by
\* add or auto-created by update, leaves the step list unchanged: one step with
\* key k remains, with its first label, its status and its detail.
C13_AddKnownKeyIsNoOp ==
  [][(out'.op = "add" /\ out'.arg.key \in KeysOf(trk.steps)) =>
        /\ trk'.steps = trk.steps
        /\ Cardinality({i \in 1..Len(trk'.steps) : trk'.steps[i].key = out'.arg.key}) = 1]_vars

\* add with another label came after the step had been auto-created by an update
\* that gave it a status and a detail.
C13_Witness ==
  /\ out.op = "add"
  /\ out.arg.key = "download"
  /\ out.arg.label = "Setup"
  /\ trk.steps = <<Step("setup", "Download", "pending", ""),
                   Step("download", "download", "running", "10%")>>

\* C14: update, start, complete, error and skip on a key the tracker has not seen
\* raise no error and append one step with that key, the key as label, the given
\* status and detail, after the other steps, which they leave unchanged.
C14_UpdateAutoCreates ==
  [][(out'.op \in UpdateOps /\ out'.arg.key \notin KeysOf(trk.steps)) =>
        /\ ~out'.threw
        /\ trk'.steps = Append(trk.steps, Step(out'.arg.key, out'.arg.key,
                                              out'.arg.status, out'.arg.detail))
        /\ out'.op = "start" => out'.arg.status = "running"
        /\ out'.op = "complete" => out'.arg.status = "done"
        /\ out'.op = "error" => out'.arg.status = "error"
        /\ out'.op = "skip" => out'.arg.status = "skipped"]_vars

\* error('download', '10%') on a tracker that had only the step setup.
C14_Witness ==
  /\ out.op = "error"
  /\ trk.steps = <<Step("setup", "Setup", "done", ""),
                   Step("download", "download", "error", "10%")>>

\* C15: an update of a known key overwrites the status, and the detail only when
\* the given detail is non-empty; the render shows that status and that detail.
C15_UpdateOverwrites ==
  [][(out'.op \in UpdateOps /\ out'.arg.key \in KeysOf(trk.steps)) =>
        LET i == find(trk.steps, out'.arg.key)
            old == trk.steps[i]
            new == trk'.steps[i]
            line == Tracker_render(trk')[i + 1]
        IN /\ new.status = out'.arg.status
           /\ new.detail = IF out'.arg.detail # "" THEN out'.arg.detail ELSE old.detail
           /\ line.detail = new.detail
           /\ line.symbol = getStatusDisplay(out'.arg.status).symbol
           /\ line.color = getStatusDisplay(out'.arg.status).color]_vars

\* setup is done and download is running with the detail 50%, the last call
\* having been update('download', 'running', '50%').
C15_Witness ==
  /\ out.op = "update"
  /\ out.arg = Step("download", "", "running", "50%")
  /\ trk.steps = <<Step("setup", "Setup", "done", ""),
                   Step("download", "Download", "running", "50%")>>
  /\ Tracker_render(trk)[3].detail = "50%"
  /\ Tracker_render(trk)[2].symbol = "filled"

\* C16: no two steps share a key; a call removes or moves no step and changes no
\* key or label, a new step going to the end; render() lists the steps in that
\* order, with the closing branch glyph on the last step only.
C16_StepsUniqueAndOrdered ==
  /\ [](LET n == Len(trk.steps)
            lines == Tracker_render(trk)
        IN /\ \A i, j \in 1..n : trk.steps[i].key = trk.steps[j].key => i = j
           /\ Len(lines) = n + 1
           /\ \A i \in 1..n :
                /\ lines[i + 1].label = trk.steps[i].label
                /\ lines[i + 1].branch = "closing" <=> i = n)
  /\ [][LET n == Len(trk.steps) IN
        /\ Len(trk'.steps) \in {n, n + 1}
        /\ \A i \in 1..n :
             /\ trk'.steps[i].key = trk.steps[i].key
             /\ trk'.steps[i].label = trk.steps[i].label
        /\ Len(trk'.steps) = n + 1 =>
             (trk'.steps[n + 1].key = out'.arg.key /\ out'.arg.key \notin KeysOf(trk.steps))]_vars

\* download was seen first and setup second, and both were updated afterwards.
C16_Witness ==
  /\ trk.steps = <<Step("download", "Download", "done", "50%"),
                   Step("setup", "setup", "running", "")>>
  /\ Tracker_render(trk)[2].branch = "tee"
  /\ Tracker_render(trk)[3].branch = "closing"

\* C17: with a refresh callback attached, an add of a new key and every update,
\* start, complete, error and skip invoke the callback once, and it finds the
\* change applied; an add of a known key changes nothing and invokes nothing;
\* with no callback the calls change the state and raise no error.
C17_RefreshOncePerChange ==
  [][out'.op \in TrackerOps =>
        LET changes == out'.op \in UpdateOps \/ out'.arg.key \notin KeysOf(trk.steps) IN
        /\ ~out'.threw
        /\ (changes /\ trk.refreshCallback # Null) => out'.refreshes = <<trk'.steps>>
        /\ (changes /\ trk.refreshCallback = Null) => out'.refreshes = <<>>
        /\ changes => out'.arg.key \in KeysOf(trk'.steps)
        /\ (changes /\ out'.op \in UpdateOps) =>
              StepOf(trk'.steps, out'.arg.key).status = out'.arg.status
        /\ ~changes => (out'.refreshes = <<>> /\ trk' = trk)]_vars

\* complete() on the second step was reported to the application's callback.
C17_Witness ==
  /\ out.op = "complete"
  /\ trk.refreshCallback = "obs"
  /\ Len(trk.steps) = 2
  /\ out.refreshes = <<trk.steps>>
  /\ trk.steps[2].status = "done"

\* C18: a refresh callback that throws is swallowed: the add or update that
\* invoked it returns normally and its change is kept; the callback stays
\* attached, so that every later call invokes it again.
C18_ThrowingRefreshIsSwallowed ==
  (out.op \in TrackerOps /\ trk.refreshCallback = "throws") =>
     /\ ~out.threw
     /\ proc.alive
     /\ out.arg.key \in KeysOf(trk.steps)
     /\ out.op \in UpdateOps =>
          /\ out.refreshes = <<trk.steps>>
          /\ StepOf(trk.steps, out.arg.key).status = out.arg.status
     /\ out.refreshes # <<>> => out.refreshes = <<trk.steps>>

\* The throwing callback was invoked by the add of a second step.
C18_Witness ==
  /\ out.op = "add"
  /\ trk.refreshCallback = "throws"
  /\ Len(trk.steps) = 2
  /\ trk.steps[2].key = out.arg.key
  /\ out.refreshes = <<trk.steps>>

\* C19: a tracker call, which queues a render function, draws nothing; only the
\* periodic flush and finish draw, once per step at most; a flush with k >= 1
\* queued render functions calls the last one queued and no other, empties the
\* queue and writes the render of the tracker as it is then; a flush with
\* nothing queued draws nothing.
C19_FlushDrawsLatestOnly ==
  [][LET k == Len(upd.updateQueue) IN
     /\ out'.op \in TrackerOps =>
          (out'.drawn = <<>> /\ out'.erased = <<>> /\ out'.called = <<>>)
     /\ out'.drawn # <<>> => (out'.op \in {"tick", "finish"} /\ Len(out'.drawn) = 1)
     /\ (out'.op = "tick" /\ k >= 1) =>
          /\ out'.called = <<upd.updateQueue[k]>>
          /\ out'.drawn = <<Tracker_render(trk)>>
          /\ upd'.updateQueue = <<>>
          /\ upd'.currentLines = Len(trk.steps) + 1
          /\ trk' = trk
     /\ (out'.op = "tick" /\ k = 0) =>
          (out'.called = <<>> /\ out'.drawn = <<>> /\ out'.erased = <<>> /\ upd' = upd)]_vars

\* A flush found three render functions queued and called the third: the render
\* of the title and two steps replaced an earlier one.
C19_Witness ==
  /\ out.op = "tick"
  /\ out.called = <<[fn |-> "tracker.render", n |-> 3]>>
  /\ out.erased # <<>>
  /\ Len(out.drawn[1]) = 3
  /\ upd.updateQueue = <<>>

\* C20: finish(renderFn) stops the periodic flush, erases the lines last drawn
\* and renders once; once finished (and not started again) the updater draws
\* nothing, whatever is queued.
C20_FinishIsFinal ==
  /\ [](/\ out.op = "finish" =>
             /\ hist.finished
             /\ out.drawn = <<Tracker_render(trk)>>
             /\ out.called = <<[fn |-> "tracker.render", n |-> 0]>>
             /\ out.erased = IF upd.currentLines > 0 THEN <<upd.currentLines>> ELSE <<>>
        /\ hist.finished => (~upd.isActive /\ upd.updateInterval = Null))
  /\ [][/\ (hist.finished /\ out'.op # "finish") =>
             (out'.drawn = <<>> /\ out'.erased = <<>> /\ out'.called = <<>>)
        /\ (hist.finished /\ ~hist'.finished) => out'.op = "LiveUpdater.start"]_vars

\* After finish, which erased an earlier flush, tracker updates were queued up to
\* the bound and nothing was drawn.
C20_Witness ==
  /\ hist.finished
  /\ out.op \in TrackerOps
  /\ upd.currentLines > 0
  /\ Len(upd.updateQueue) >= 2
  /\ out.drawn = <<>>

\* C21: every waitForKey() promise pending when an event is emitted resolves with
\* the name of that event, the first one emitted after the call, whatever other
\* promises or 'any' subscribers are pending; its handler is then no longer
\* registered.
C21_WaitForKeyGetsNextEvent ==
  (Fired /\ ~out.threw) =>
     \A cb \in Range(out.anyAtStart) :
        cb.kind \in {"wait", "getKey"} =>
           /\ \E i \in 1..Len(out.resolved) :
                 out.resolved[i] = [cb |-> cb, key |-> out.emitted[1].name]
           /\ cb \notin Range(kb.listeners["any"])
           /\ cb \notin wait

\* C22: normalizeKey never throws and returns a name for every input: the
\* descriptor's name for up, down, left, right, escape, space, tab and backspace,
\* enter for return, whatever the raw character; for another descriptor the raw
\* character if non-empty, else the descriptor's name, else unknown; for a missing
\* descriptor the raw character, or unknown.
SameName == {"up", "down", "left", "right", "escape", "space", "tab", "backspace"}

C22_NormalizeKeyTotal ==
  out.op = "normalizeKey" =>
     LET str == out.raw.str
         key == out.raw.key
         hasChar == str \notin {"", Null}
     IN /\ ~out.threw
        /\ out.key \notin {"", Null}
        /\ (key.some /\ key.name \in SameName) => out.key = key.name
        /\ (key.some /\ key.name = "return") => out.key = "enter"
        /\ (key.some /\ key.name \notin SameName \cup {"return"} /\ hasChar) => out.key = str
        /\ (key.some /\ key.name \notin SameName \cup {"return", ""} /\ ~hasChar) =>
              out.key = key.name
        /\ (key.some /\ key.name = "" /\ ~hasChar) => out.key = "unknown"
        /\ (~key.some /\ hasChar) => out.key = str
        /\ (~key.some /\ ~hasChar) => out.key = "unknown"

\* The return key, which the terminal delivers with the character "\r", was
\* normalized to enter.
C22_Witness ==
  /\ out.op = "normalizeKey"
  /\ out.raw = KeyReturn
  /\ out.key = "enter"

C24_RedrawInPlace ==
  LET block == 0..(Len(sel.items) + 5) IN
  /\ sel.painted \in {{}, block}
  /\ sel.cursor >= 0
  /\ sel.pc = "polling" => (sel.painted = block /\ sel.cursor = Len(sel.items) + 5)
  /\ sel.pc \in {"none", "failed"} => (sel.painted = {} /\ sel.cursor = 0)
  /\ sel.pc = "done" =>
       (sel.painted = {} /\ sel.cursor = IF sel.returned = Null THEN 2 ELSE 0)

\* C27: a Selector with at least one item has its selectedIndex in [0, N) in every
\* state, whatever defaultIndex it was constructed with, and enter yields one of
\* its items.
C27_SelectedIndexInRange ==
  (sel.pc # "none" /\ Len(sel.items) >= 1) =>
     /\ sel.selectedIndex \in 0..(Len(sel.items) - 1)
     /\ hist.last = "enter" => sel.result \in Range(sel.items)

\* C28: a Selector with no item never has a result: its run does not fail, up and
\* down raise no error, enter and escape both end the wait, and run() ends
\* returning no item, with its listener removed and raw mode disabled.
C28_EmptyListOnlyCancels ==
  (sel.pc # "none" /\ Len(sel.items) = 0) =>
     /\ sel.pc # "failed"
     /\ ~out.threw
     /\ sel.result = Null
     /\ (sel.pc = "polling" /\ hist.last \in {"enter", "escape"}) => ~sel.isActive
     /\ sel.pc = "done" =>
          /\ sel.returned = Null
          /\ sel.returnedKey = Null
          /\ SelCb \notin Range(kb.listeners["any"])
          /\ ~kb.isRawMode
          /\ ~stdin.isRaw

\* The run of a Selector without items, after an up key and then enter, has
\* returned no item to the application.
C28_Witness ==
  /\ Len(sel.items) = 0
  /\ sel.caller = Null
  /\ out.op = "poll"
  /\ hist.ups >= 1
  /\ hist.last = "enter"
  /\ sel.returned = Null
  /\ proc.alive

\* C25: emit invokes the callbacks registered under the event's name, in
\* registration order, then those registered under 'any', in registration order,
\* each registration once.
ExpectedInvocations(o) ==
  [i \in 1..Len(o.namedAtStart) |-> [cb |-> o.namedAtStart[i], under |-> o.emitted[1].name]]
    \o [i \in 1..Len(o.anyAtStart) |-> [cb |-> o.anyAtStart[i], under |-> "any"]]

C25_EmitOrder == Fired => out.invoked = ExpectedInvocations(out)

\* C26: without a terminal, enableRawMode and disableRawMode raise no error and
\* never touch the terminal mode, while the flag and the delivery follow the
\* call; with a terminal the raw setting equals the flag after every call.
C26_NonTtyDegrades ==
  /\ ~stdin.isTTY => ~stdin.isRaw
  /\ out.op \in {"enableRawMode", "disableRawMode"} =>
       /\ ~out.threw
       /\ stdin.isTTY => (stdin.isRaw <=> kb.isRawMode)
       /\ out.op = "enableRawMode" => (kb.isRawMode /\ stdin.flowing)
       /\ out.op = "disableRawMode" => (~kb.isRawMode /\ ~stdin.flowing)

\* Without a terminal, raw mode was enabled and disabled again.
C26_Witness ==
  /\ ~stdin.isTTY
  /\ out.op = "disableRawMode"
  /\ hist.rawCalls = <<"enable", "disable">>
  /\ ~stdin.flowing

\* C29: an update to any status succeeds whatever the step's status; after each
\* call the status of a step is the one the call gave it if the call was an
\* update, start, complete, error or skip for its key, pending if the call added
\* it, and the status it had otherwise.
C29_LastStatusWins ==
  [][out'.op \in TrackerOps =>
        /\ ~out'.threw
        /\ \A i \in 1..Len(trk'.steps) :
             trk'.steps[i].status =
               IF out'.op \in UpdateOps /\ trk'.steps[i].key = out'.arg.key
               THEN out'.arg.status
               ELSE IF i <= Len(trk.steps) THEN trk.steps[i].status
               ELSE "pending"]_vars

\* A step that had reported its progress was set back to pending.
C29_Witness ==
  /\ out.op = "update"
  /\ out.arg = Step("download", "", "pending", "")
  /\ trk.steps = <<Step("download", "download", "pending", "50%")>>

\* C30: a callback registered k times under a name is invoked k times for a
\* matching event; off removes the first of its registrations and leaves the
\* others in their order, and changes nothing when there is none.
RemoveFirst(s, x) ==
  IF x \notin Range(s) THEN s
  ELSE LET i == IndexOf(s, x) IN [j \in 1..(Len(s) - 1) |-> IF j < i THEN s[j] ELSE s[j + 1]]

C30_RegistryKeepsDuplicates ==
  /\ [](Fired =>
          \A c \in Observers :
             /\ TimesInvoked(out, "any", Cb("obs", c)) = Count(out.anyAtStart, Cb("obs", c))
             /\ TimesInvoked(out, out.emitted[1].name, Cb("obs", c))
                  = Count(out.namedAtStart, Cb("obs", c)))
  /\ [][out'.op = "off" =>
          \E name \in SubNames, c \in Observers :
             kb'.listeners =
               [kb.listeners EXCEPT ![name] = RemoveFirst(@, Cb("obs", c))]]_vars

\* C31: display() with clearPrevious, after an earlier display(), erases exactly
\* the rows the earlier render was written on and begins the new render on the
\* row on which the earlier one began.
C31_DisplayInPlace ==
  [][(out'.op = "display" /\ out'.key = "clearPrevious" /\ trk.lastRenderLines > 0) =>
        /\ out'.rows = 0..(trk.lastRenderLines - 1)
        /\ out'.top = 0]_vars

\* C32: a flush, and the final render of finish(), that follows an earlier
\* content of the updater erases exactly the rows of that content and begins the
\* new content on the row on which that content began.
PreviouslyFlushed == upd.shown > 0 /\ upd.cursor = upd.shown - 1

C32_FlushReplacesContent ==
  [][(out'.op \in {"tick", "finish"} /\ out'.drawn # <<>> /\ PreviouslyFlushed) =>
        /\ out'.rows = 0..(upd.shown - 1)
        /\ out'.top = 0]_vars

\* C33: an event is emitted only while raw mode is enabled: none is emitted by a
\* step that begins with raw mode disabled.
C33_EmitOnlyInRawMode ==
  [][out'.emitted # <<>> => kb.isRawMode]_vars

\* C34: the keypresses whose events a subscriber was given are, in the order of
\* delivery, a subsequence of the keypresses in the order they were pressed: no
\* event is given twice or invented, and none is given out of order.
RECURSIVE IsSubsequence(_, _)
IsSubsequence(s, t) ==
  IF s = <<>> THEN TRUE
  ELSE IF t = <<>> THEN FALSE
  ELSE IF Head(s) = Head(t) THEN IsSubsequence(Tail(s), Tail(t))
  ELSE IsSubsequence(s, Tail(t))

C34_DeliveredInPressOrder == IsSubsequence(hist.delivered, hist.log)

\* Of the keypresses x, x, enter the subscriber was given the first x and, the
\* second x being coalesced away, enter.
C34_Witness ==
  /\ hist.log = <<KeyX, KeyX, KeyReturn>>
  /\ hist.delivered = <<KeyX, KeyReturn>>

\* C35: the Selector leaves Active only by handling enter or escape, and run()
\* returns only from a poll cycle that finds it not Active; once it has handled
\* enter or escape, run() returns, without any further key, unless the process
\* ends first.
C35_RunEndsExactlyWhenDone ==
  /\ [][/\ (sel.pc = "polling" /\ sel.isActive /\ ~sel'.isActive) =>
             (SelHandled(out') /\ SelKey(out') \in {"enter", "escape"})
        /\ (sel.pc = "polling" /\ sel'.pc # "polling") =>
             (~sel.isActive /\ out'.op = "poll" /\ sel'.pc = "done")]_vars
  /\ (sel.pc = "polling" /\ hist.last \in {"enter", "escape"})
       ~> (sel.pc = "done" \/ ~proc.alive)

\* run() has returned from its poll loop after escape.
C35_Witness ==
  /\ out.op = "poll"
  /\ sel.pc = "done"
  /\ hist.last = "escape"
  /\ sel.returned = Null
  /\ proc.alive

\* C36: a Key Source whose raw-mode flag is set has exactly one keypress listener
\* on the input stream and one whose flag is clear has none, whatever was called
\* on the Key Source objects that share the stream.
C36_OneListenerIffRawMode ==
  /\ stdin.keypress = IF kb.isRawMode THEN 1 ELSE 0
  /\ peer.keypress = IF peer.isRawMode THEN 1 ELSE 0

\* C37: the updater has one interval timer scheduled when isActive is true and
\* none when it is false, and updateInterval holds a timer exactly when isActive;
\* start while active and stop while inactive change nothing.
C37_OneTimerIffActive ==
  /\ [](/\ upd.timers = IF upd.isActive THEN 1 ELSE 0
        /\ upd.isActive <=> upd.updateInterval # Null)
  /\ [][/\ (out'.op = "LiveUpdater.start" /\ upd.isActive) => upd' = upd
        /\ (out'.op = "LiveUpdater.stop" /\ ~upd.isActive) => upd' = upd
        /\ out'.op \in {"LiveUpdater.stop", "finish"} => upd'.timers = 0]_vars

\* The updater was stopped after it had flushed: no timer is left.
C37_Witness ==
  /\ out.op = "LiveUpdater.stop"
  /\ upd.currentLines > 0
  /\ ~upd.isActive
  /\ upd.timers = 0

\* C38: while the updater is started, an update that is queued is followed by a
\* flush, which renders the tracker as it is then, or by stop() or finish(); only
\* a flush of the started updater and finish() draw.
Flushed == out.op = "tick" /\ out.drawn = <<Tracker_render(trk)>>

C39_AtMostOnePending == Len(upd.updateQueue) <= 1

====
